---- MODULE Spec2Model ----
(***************************************************************************)
(* Model of venv_fix.py: the shebang locator/patcher of repair_file and    *)
(* the batch driver of main.                                               *)
(*                                                                         *)
(* Byte sequences are TLA+ sequences of integers 0..255.  Offsets are      *)
(* 0-based and spans are half-open, as in Python: At(s, i) is s[i] and     *)
(* Slice(s, a, b) is s[a:b].                                               *)
(***************************************************************************)
EXTENDS Integers, Sequences, FiniteSets, TLC

VARIABLES
    \* ---- pure Locate/Patch specification (SpecLocate) ----
    phase,              \* position in the locate / patch / locate-again run
    bytes,              \* the raw file bytes given to the search
    span,               \* r.span() of the first search, or None
    shown,              \* current_shebang of the first search
    replacement,        \* new_shebang_part of the patch
    patched,            \* new_content of the patch
    respan,             \* r.span() of the search over the patched bytes
    repatched,          \* new_content of the second patch with the same r
    \* ---- driver specification (Spec) ----
    disk,               \* path -> entry of the file system
    filenames,          \* main: the list of targets
    base_interpreter,   \* args.base_interpreter (None or a string)
    print_only,         \* args.print_only
    backup,             \* args.backup
    idx,                \* main: number of targets the for loop has taken
    success_count,      \* main: success_count
    exit_code,          \* process exit status, None while running
    pc,                 \* position inside main / repair_file
    filename,           \* repair_file: filename
    content,            \* repair_file: content
    r,                  \* repair_file: r.span(), or None
    current_shebang,    \* repair_file: current_shebang
    new_shebang_part,   \* repair_file: new_shebang_part
    log,                \* per finished repair_file call: target, result, events
    io,                 \* events of the current repair_file call, in order
    disk0               \* the file system when the run started

locateVars == <<phase, bytes, span, shown, replacement, patched, respan, repatched>>
driverVars == <<disk, filenames, base_interpreter, print_only, backup, idx,
                success_count, exit_code, pc, filename, content, r,
                current_shebang, new_shebang_part, log, io, disk0>>
vars == <<locateVars, driverVars>>

----------------------------------------------------------------------------
(* Byte values used by the patterns of repair_file (lines 37, 39).         *)
HASH == 35
BANG == 33
CR == 13
LF == 10
LetterP == 80
LetterK == 75

None == <<>>

At(s, i) == s[i + 1]
Slice(s, a, b) == SubSeq(s, a + 1, b)

SetMax(S) == CHOOSE x \in S : \A y \in S : y <= x
SetMin(S) == CHOOSE x \in S : \A y \in S : x <= y

(* [\r\n] *)
IsLineBreak(c) == c \in {CR, LF}

(* (?<=#!) at offset pos *)
LookBehind(s, pos) ==
    /\ pos >= 2
    /\ At(s, pos - 2) = HASH
    /\ At(s, pos - 1) = BANG

(* The run as a class that leaves CR out, [^\n]*, would give it. *)
RECURSIVE ClassRunEnd_OnlyLF(_, _)
ClassRunEnd_OnlyLF(s, pos) ==
    IF pos < Len(s) /\ At(s, pos) # LF
    THEN ClassRunEnd_OnlyLF(s, pos + 1)
    ELSE pos

(* Offsets at which [^\r\n]* started at pos can stop: every prefix of the  *)
(* run of non-line-break bytes (the engine tries the longest first).       *)
RECURSIVE ClassRunEnd(_, _)
ClassRunEnd(s, pos) ==
    IF pos < Len(s) /\ ~IsLineBreak(At(s, pos))
    THEN ClassRunEnd(s, pos + 1)
    ELSE pos

(* (?=[\r\n]+PK) at offset e: some non-empty stretch of line breaks        *)
(* followed by the bytes P K.                                              *)
LookAheadPK(s, e) ==
    \E n \in 1..(Len(s) - e) :
        /\ \A i \in e..(e + n - 1) : IsLineBreak(At(s, i))
        /\ e + n + 1 < Len(s)
        /\ At(s, e + n) = LetterP
        /\ At(s, e + n + 1) = LetterK

(* pattern1 with the marker matched rather than looked behind, #![^\r\n]*, *)
(* whose span takes the marker in.                                         *)
MatchPattern1_WithMarker(s, pos) ==
    IF ~LookBehind(s, pos) THEN None
    ELSE LET stops == {e \in pos..ClassRunEnd(s, pos) : LookAheadPK(s, e)}
         IN  IF stops = {} THEN None ELSE <<pos - 2, SetMax(stops)>>

(* pattern1 tried at offset pos: the span matched, or None.  Greedy with   *)
(* backtracking: the longest stop of the run at which the lookahead holds. *)
MatchPattern1(s, pos) ==
    IF ~LookBehind(s, pos) THEN None
    ELSE LET stops == {e \in pos..ClassRunEnd(s, pos) : LookAheadPK(s, e)}
         IN  IF stops = {} THEN None ELSE <<pos, SetMax(stops)>>

(* pattern2 without its lookbehind, [^\r\n]*. *)
MatchPattern2_NoLookBehind(s, pos) == <<pos, ClassRunEnd(s, pos)>>

(* pattern2 tried at offset pos. *)
MatchPattern2(s, pos) ==
    IF ~LookBehind(s, pos) THEN None
    ELSE <<pos, ClassRunEnd(s, pos)>>

(* A search that keeps the last match of pattern1 instead of the first. *)
Search1_Rightmost(s) ==
    LET hits == {pos \in 0..Len(s) : MatchPattern1(s, pos) # None}
    IN  IF hits = {} THEN None ELSE MatchPattern1(s, SetMax(hits))

(* re.search(pattern1, content): the match at the leftmost offset.         *)
Search1(s) ==
    LET hits == {pos \in 0..Len(s) : MatchPattern1(s, pos) # None}
    IN  IF hits = {} THEN None ELSE MatchPattern1(s, SetMin(hits))

(* re.search(pattern2, content) *)
Search2(s) ==
    LET hits == {pos \in 0..Len(s) : MatchPattern2(s, pos) # None}
    IN  IF hits = {} THEN None ELSE MatchPattern2(s, SetMin(hits))

(* The search with pattern2 alone. *)
Locate_SecondaryOnly(s) == Search2(s)

(* Lines 41-45: primary search, secondary search when the primary is None. *)
Locate(s) ==
    IF Search1(s) # None THEN Search1(s) ELSE Search2(s)

(* The splice with content[end + 1:] for its tail. *)
Patch_SkipsByte(s, sp, rep) ==
    Slice(s, 0, sp[1]) \o rep \o Slice(s, sp[2] + 1, Len(s))

(* The splice with content[start:] for its tail: the old field stays. *)
Patch_KeepsField(s, sp, rep) ==
    Slice(s, 0, sp[1]) \o rep \o Slice(s, sp[1], Len(s))

(* Line 73 *)
Patch(s, sp, rep) ==
    Slice(s, 0, sp[1]) \o rep \o Slice(s, sp[2], Len(s))

----------------------------------------------------------------------------
(* str.encode('utf-8') (line 69).  A string is a sequence of code points.  *)
IsSurrogate(cp) == cp >= 55296 /\ cp <= 57343

(* encode raises UnicodeEncodeError on a lone surrogate, which is what a   *)
(* command-line argument with an undecodable byte contains.                *)
EncodeRaises(str) == \E i \in 1..Len(str) : IsSurrogate(str[i])

EncodeCodePoint(cp) ==
    IF cp < 128 THEN <<cp>>
    ELSE IF cp < 2048 THEN <<192 + (cp \div 64), 128 + (cp % 64)>>
    ELSE IF cp < 65536
         THEN <<224 + (cp \div 4096), 128 + ((cp \div 64) % 64), 128 + (cp % 64)>>
    ELSE <<240 + (cp \div 262144), 128 + ((cp \div 4096) % 64),
           128 + ((cp \div 64) % 64), 128 + (cp % 64)>>

RECURSIVE EncodeUtf8(_)
EncodeUtf8(str) ==
    IF str = <<>> THEN <<>>
    ELSE EncodeCodePoint(Head(str)) \o EncodeUtf8(Tail(str))

(* bytes.decode('utf-8', errors='replace') (line 50): an ill-formed        *)
(* sequence gives one U+FFFD for its longest well-formed prefix.           *)
ReplacementChar == 65533

IsContinuation(c) == c >= 128 /\ c <= 191

(* Number of bytes the sequence led by c should have, 0 for a byte that    *)
(* cannot start one.                                                       *)
SequenceLength(c) ==
    IF c < 128 THEN 1
    ELSE IF c < 194 THEN 0
    ELSE IF c < 224 THEN 2
    ELSE IF c < 240 THEN 3
    ELSE IF c < 245 THEN 4
    ELSE 0

(* The second byte of a sequence led by c has a narrower range for the     *)
(* leads E0, ED, F0 and F4.                                                *)
SecondByteOk(c, c2) ==
    /\ IsContinuation(c2)
    /\ (c = 224 => c2 >= 160)
    /\ (c = 237 => c2 < 160)
    /\ (c = 240 => c2 >= 144)
    /\ (c = 244 => c2 < 144)

(* How many of the bytes after offset i continue the sequence led there.   *)
RECURSIVE Trailing(_, _, _, _)
Trailing(s, i, k, need) ==
    IF k >= need - 1 \/ i + k + 1 >= Len(s) THEN k
    ELSE IF k = 0 /\ ~SecondByteOk(At(s, i), At(s, i + 1)) THEN k
    ELSE IF k > 0 /\ ~IsContinuation(At(s, i + k + 1)) THEN k
    ELSE Trailing(s, i, k + 1, need)

CodePointAt(s, i, need) ==
    IF need = 1 THEN At(s, i)
    ELSE IF need = 2 THEN (At(s, i) - 192) * 64 + (At(s, i + 1) - 128)
    ELSE IF need = 3
         THEN (At(s, i) - 224) * 4096 + (At(s, i + 1) - 128) * 64
              + (At(s, i + 2) - 128)
    ELSE (At(s, i) - 240) * 262144 + (At(s, i + 1) - 128) * 4096
         + (At(s, i + 2) - 128) * 64 + (At(s, i + 3) - 128)

RECURSIVE DecodeFrom(_, _)
DecodeFrom(s, i) ==
    IF i >= Len(s) THEN <<>>
    ELSE LET need == SequenceLength(At(s, i))
             k == IF need = 0 THEN 0 ELSE Trailing(s, i, 0, need)
         IN  IF need > 0 /\ k = need - 1
             THEN <<CodePointAt(s, i, need)>> \o DecodeFrom(s, i + need)
             ELSE <<ReplacementChar>> \o DecodeFrom(s, i + k + 1)

DecodeUtf8Replace(s) == DecodeFrom(s, 0)

----------------------------------------------------------------------------
(* Inputs of the pure specification.                                       *)

(* Largest number of pieces an input is built from. *)
MaxPieces == 5

(* Pieces of an input: the marker, the archive signature, the two line     *)
(* breaks, an ordinary byte, and the first byte of the signature on its    *)
(* own.                                                                    *)
Pieces == {<<HASH, BANG>>, <<LetterP, LetterK>>, <<LF>>, <<CR>>, <<97>>,
           <<LetterP>>}

RECURSIVE Flatten(_)
Flatten(ps) == IF ps = <<>> THEN <<>> ELSE Head(ps) \o Flatten(Tail(ps))

Inputs == {Flatten(ps) : ps \in UNION {[1..n -> Pieces] : n \in 0..MaxPieces}}

(* Interpreter paths given to the patch, as strings: an ordinary one, ones *)
(* that contain the marker or the signature, a non-ASCII one, and ones     *)
(* with a line break in them.                                              *)
Interpreters == {<<97>>, <<HASH, BANG>>, <<LetterP, LetterK>>, <<233>>,
                 <<LF>>, <<97, CR, LF, LetterP, LetterK>>}

Idle == "idle"

driverIdle ==
    /\ disk = Idle /\ filenames = <<>> /\ base_interpreter = None
    /\ print_only = FALSE /\ backup = FALSE /\ idx = 0 /\ success_count = 0
    /\ exit_code = None /\ pc = Idle /\ filename = None /\ content = None
    /\ r = None /\ current_shebang = None /\ new_shebang_part = None
    /\ log = <<>> /\ io = <<>> /\ disk0 = Idle

InitLocate ==
    /\ phase = "input"
    /\ bytes \in Inputs
    /\ span = None /\ shown = None /\ replacement = None /\ patched = None
    /\ respan = None /\ repatched = None
    /\ driverIdle

(* Lines 37-51: both searches, then the decoded field that is printed. *)
LocateFound ==
    /\ phase = "input"
    /\ Locate(bytes) # None
    /\ span' = Locate(bytes)
    /\ shown' = DecodeUtf8Replace(Slice(bytes, span'[1], span'[2]))
    /\ phase' = "located"
    /\ UNCHANGED <<bytes, replacement, patched, respan, repatched>>
    /\ UNCHANGED driverVars

(* Lines 46-48: neither pattern matches. *)
LocateNotFound ==
    /\ phase = "input"
    /\ Locate(bytes) = None
    /\ phase' = "notfound"
    /\ UNCHANGED <<bytes, span, shown, replacement, patched, respan, repatched>>
    /\ UNCHANGED driverVars

(* Lines 68-73: encode the interpreter path and splice it into the span. *)
PatchStep ==
    /\ phase = "located"
    /\ \E s \in Interpreters :
        /\ ~EncodeRaises(s)
        /\ replacement' = EncodeUtf8(s)
        /\ patched' = Patch(bytes, span, replacement')
    /\ phase' = "patched"
    /\ UNCHANGED <<bytes, span, shown, respan, repatched>>
    /\ UNCHANGED driverVars

(* A second run over the bytes the first run produced, with the same       *)
(* interpreter path (lines 37-45 and 68-73 again).                         *)
RelocateStep ==
    /\ phase = "patched"
    /\ respan' = Locate(patched)
    /\ repatched' = IF respan' = None THEN patched
                    ELSE Patch(patched, respan', replacement)
    /\ phase' = "relocated"
    /\ UNCHANGED <<bytes, span, shown, replacement, patched>>
    /\ UNCHANGED driverVars

NextLocate == LocateFound \/ LocateNotFound \/ PatchStep \/ RelocateStep

SpecLocate == InitLocate /\ [][NextLocate]_vars

----------------------------------------------------------------------------
(* The driver: main (lines 149-163) calling repair_file (lines 14-90).     *)
(* Standard output is taken to accept every text printed to it.            *)

(* Largest number of targets on the command line or on standard input. *)
MaxFiles == 2

(* Contents of target "f": empty; no marker; a lone #; a field up to the   *)
(* end of data; a field up to a line break with no archive; an empty       *)
(* field before the archive; PK right after the marker; a second marker    *)
(* whose line is the one before the archive; a field that is not UTF-8.    *)
DiskContents ==
    {<<>>,
     <<LetterP, LetterK, 97>>,
     <<97, HASH>>,
     <<HASH, BANG, 97>>,
     <<HASH, BANG, 97, LF, 97>>,
     <<HASH, BANG, CR, LF, LetterP, LetterK>>,
     <<HASH, BANG, LetterP, LetterK>>,
     <<HASH, BANG, LF, HASH, BANG, 97, LF, LetterP, LetterK>>,
     <<97, HASH, BANG, 195, LF>>}

File(data) == [kind |-> "file", data |-> data]
Directory == [kind |-> "dir", data |-> <<>>]
Absent == [kind |-> "none", data |-> <<>>]

(* Line 58 *)
BackupPath(name) == name \o ".backup"

(* A wrapper as the launcher builds it: stub, shebang line, archive.       *)
Wrapper == <<77, 90, HASH, BANG, 97, 97, CR, LF, LetterP, LetterK, 3, 4>>

(* Targets: a regular file of any content, a wrapper, a directory and a    *)
(* path that does not exist.                                               *)
Targets == {"f", "g", "d", "x"}
Paths == Targets \cup {BackupPath(t) : t \in Targets}

(* Values of --base_interpreter: an ASCII path, a non-ASCII path and a     *)
(* path holding a lone surrogate (an undecodable command-line byte).       *)
InterpreterArgs == {<<97>>, <<233, 97>>, <<56575>>}

TargetLists == UNION {[1..n -> Targets] : n \in 1..MaxFiles}

(* The state at line 149: the arguments passed the checks of lines         *)
(* 129-144, so there is an interpreter unless print_only is set and the    *)
(* list of targets is not empty.                                           *)
Init ==
    /\ phase = Idle /\ bytes = None /\ span = None /\ shown = None
    /\ replacement = None /\ patched = None /\ respan = None
    /\ repatched = None
    /\ \E data \in DiskContents :
        disk = [p \in Paths |->
                  CASE p = "f" -> File(data)
                    [] p = "g" -> File(Wrapper)
                    [] p = "d" -> Directory
                    [] p = BackupPath("f") -> File(<<97>>)
                    [] OTHER -> Absent]
    /\ disk0 = disk
    /\ filenames \in TargetLists
    /\ print_only \in BOOLEAN
    /\ backup \in BOOLEAN
    /\ base_interpreter \in InterpreterArgs \cup {None}
    /\ (base_interpreter = None => print_only)
    /\ idx = 0 /\ success_count = 0 /\ exit_code = None
    /\ pc = "loop"
    /\ filename = None /\ content = None /\ r = None
    /\ current_shebang = None /\ new_shebang_part = None
    /\ log = <<>> /\ io = <<>>

unchangedLocals == UNCHANGED <<filename, content, r, current_shebang, new_shebang_part>>
unchangedArgs == UNCHANGED <<filenames, base_interpreter, print_only, backup, disk0>>

(* repair_file returns ok; lines 154-155 count it. *)
Return(ok, events) ==
    /\ io' = events
    /\ log' = Append(log, [target |-> filename, ok |-> ok, io |-> events])
    /\ success_count' = IF ok THEN success_count + 1 ELSE success_count
    /\ pc' = "loop"

(* Line 153: the for loop takes the next target and calls repair_file. *)
NextTarget ==
    /\ pc = "loop"
    /\ idx < Len(filenames)
    /\ idx' = idx + 1
    /\ filename' = filenames[idx + 1]
    /\ content' = None /\ r' = None /\ current_shebang' = None
    /\ new_shebang_part' = None
    /\ io' = <<>>
    /\ pc' = "check"
    /\ UNCHANGED <<disk, success_count, exit_code, log>>
    /\ unchangedArgs /\ UNCHANGED locateVars

(* An exit status that reports failure only when no target succeeded. *)
ExitCode_NoneSucceeded(successes, total) == IF successes = 0 THEN 1 ELSE 0

(* Lines 161-163 *)
ExitCode(successes, total) == IF successes < total THEN 1 ELSE 0

Finish ==
    /\ pc = "loop"
    /\ idx = Len(filenames)
    /\ exit_code' = ExitCode(success_count, Len(filenames))
    /\ pc' = "done"
    /\ UNCHANGED <<disk, idx, success_count, log, io>>
    /\ unchangedLocals /\ unchangedArgs /\ UNCHANGED locateVars

(* Lines 17-19 *)
CheckMissing ==
    /\ pc = "check"
    /\ disk[filename].kind = "none"
    /\ Return(FALSE, Append(io, "missing"))
    /\ UNCHANGED <<disk, idx, exit_code>>
    /\ unchangedLocals /\ unchangedArgs /\ UNCHANGED locateVars

(* Lines 21-23 *)
CheckNotFile ==
    /\ pc = "check"
    /\ disk[filename].kind = "dir"
    /\ Return(FALSE, Append(io, "not_a_file"))
    /\ UNCHANGED <<disk, idx, exit_code>>
    /\ unchangedLocals /\ unchangedArgs /\ UNCHANGED locateVars

(* Lines 27-28 *)
ReadOk ==
    /\ pc = "check"
    /\ disk[filename].kind = "file"
    /\ content' = disk[filename].data
    /\ io' = Append(io, "read")
    /\ pc' = "search"
    /\ UNCHANGED <<disk, idx, success_count, exit_code, log, filename, r,
                   current_shebang, new_shebang_part>>
    /\ unchangedArgs /\ UNCHANGED locateVars

(* Lines 27-28 raise; lines 82-90 turn the error into False. *)
ReadFails ==
    /\ pc = "check"
    /\ disk[filename].kind = "file"
    /\ \E err \in {"PermissionError", "OSError"} :
        Return(FALSE, Append(io, err))
    /\ UNCHANGED <<disk, idx, exit_code>>
    /\ unchangedLocals /\ unchangedArgs /\ UNCHANGED locateVars

(* The flow of lines 53-56 without the print_only test. *)
AfterReport_IgnoresPrintOnly(po, bk) == IF bk THEN "backup" ELSE "patch"

(* Lines 53-56: where repair_file goes once the shebang is printed. *)
AfterReport(po, bk) ==
    IF po THEN "return" ELSE IF bk THEN "backup" ELSE "patch"

(* Lines 37-56 with a match. *)
SearchFound ==
    /\ pc = "search"
    /\ Locate(content) # None
    /\ r' = Locate(content)
    /\ current_shebang' = DecodeUtf8Replace(Slice(content, r'[1], r'[2]))
    /\ IF AfterReport(print_only, backup) = "return"
       THEN Return(TRUE, Append(io, "report"))
       ELSE /\ io' = Append(io, "report")
            /\ pc' = AfterReport(print_only, backup)
            /\ UNCHANGED <<success_count, log>>
    /\ UNCHANGED <<disk, idx, exit_code, filename, content, new_shebang_part>>
    /\ unchangedArgs /\ UNCHANGED locateVars

(* Lines 41-48 with no match. *)
SearchNotFound ==
    /\ pc = "search"
    /\ Locate(content) = None
    /\ Return(FALSE, Append(io, "not_found"))
    /\ UNCHANGED <<disk, idx, exit_code>>
    /\ unchangedLocals /\ unchangedArgs /\ UNCHANGED locateVars

(* Lines 58-63 *)
BackupOk ==
    /\ pc = "backup"
    /\ disk' = [disk EXCEPT ![BackupPath(filename)] = File(content)]
    /\ io' = Append(io, "backup_ok")
    /\ pc' = "patch"
    /\ UNCHANGED <<idx, success_count, exit_code, log>>
    /\ unchangedLocals /\ unchangedArgs /\ UNCHANGED locateVars

(* A backup error that is not caught at line 64 and ends the call at       *)
(* lines 85-90.                                                            *)
BackupFails_Aborts ==
    /\ pc = "backup"
    /\ Return(FALSE, Append(io, "backup_failed"))
    /\ UNCHANGED <<disk, idx, exit_code>>
    /\ unchangedLocals /\ unchangedArgs /\ UNCHANGED locateVars

(* Lines 58-65: the backup cannot be written; the error is caught and      *)
(* only a warning is printed.  The backup file is as it was when open was  *)
(* refused and empty when the write was.                                   *)
BackupFails ==
    /\ pc = "backup"
    /\ \E left \in {disk[BackupPath(filename)], File(<<>>)} :
        disk' = [disk EXCEPT ![BackupPath(filename)] = left]
    /\ io' = Append(io, "backup_failed")
    /\ pc' = "patch"
    /\ UNCHANGED <<idx, success_count, exit_code, log>>
    /\ unchangedLocals /\ unchangedArgs /\ UNCHANGED locateVars

(* Line 69 raises; lines 85-90 turn the error into False. *)
EncodeFails ==
    /\ pc = "patch"
    /\ EncodeRaises(base_interpreter)
    /\ Return(FALSE, Append(io, "UnicodeEncodeError"))
    /\ UNCHANGED <<disk, idx, exit_code>>
    /\ unchangedLocals /\ unchangedArgs /\ UNCHANGED locateVars

(* Lines 68-80 *)
WriteOk ==
    /\ pc = "patch"
    /\ ~EncodeRaises(base_interpreter)
    /\ new_shebang_part' = EncodeUtf8(base_interpreter)
    /\ disk' = [disk EXCEPT ![filename] =
                   File(Patch(content, r, new_shebang_part'))]
    /\ Return(TRUE, Append(io, "write_ok"))
    /\ UNCHANGED <<idx, exit_code, filename, content, r, current_shebang>>
    /\ unchangedArgs /\ UNCHANGED locateVars

(* Lines 68-77 raise in open or write; lines 82-90 turn the error into     *)
(* False.  The target is as it was when open was refused and empty when    *)
(* the write was.                                                          *)
WriteFails ==
    /\ pc = "patch"
    /\ ~EncodeRaises(base_interpreter)
    /\ new_shebang_part' = EncodeUtf8(base_interpreter)
    /\ \E left \in {disk[filename], File(<<>>)} :
        disk' = [disk EXCEPT ![filename] = left]
    /\ \E err \in {"PermissionError", "OSError"} :
        Return(FALSE, Append(io, err))
    /\ UNCHANGED <<idx, exit_code, filename, content, r, current_shebang>>
    /\ unchangedArgs /\ UNCHANGED locateVars

Next ==
    \/ NextTarget \/ Finish
    \/ CheckMissing \/ CheckNotFile \/ ReadOk \/ ReadFails
    \/ SearchFound \/ SearchNotFound
    \/ BackupOk \/ BackupFails
    \/ EncodeFails \/ WriteOk \/ WriteFails

Spec == Init /\ [][Next]_vars

----------------------------------------------------------------------------
(* Vocabulary of the properties, stated on the bytes themselves.           *)

(* Offsets at which the two bytes #! stand. *)
Markers(s) == {i \in 0..(Len(s) - 2) : At(s, i) = HASH /\ At(s, i + 1) = BANG}

(* The first offset from a on that is a line break or the end of data. *)
FieldEnd(s, a) ==
    SetMin({j \in a..Len(s) : j = Len(s) \/ IsLineBreak(At(s, j))})

(* From offset j: one or more line breaks, then P K. *)
BreaksThenPK(s, j) ==
    \E k \in (j + 1)..(Len(s) - 2) :
        /\ \A i \in j..(k - 1) : IsLineBreak(At(s, i))
        /\ At(s, k) = LetterP
        /\ At(s, k + 1) = LetterK

(* Markers whose line is followed by line breaks and the signature. *)
WellFormed(s) == {i \in Markers(s) : BreaksThenPK(s, FieldEnd(s, i + 2))}

(* The marker the two-stage search settles on. *)
Anchor(s) ==
    IF WellFormed(s) # {} THEN SetMin(WellFormed(s)) ELSE SetMin(Markers(s))

HasLineBreak(s) == \E i \in 1..Len(s) : IsLineBreak(s[i])

Searched == phase \in {"located", "notfound", "patched", "relocated"}

(* The patched bytes are the input with rep put in at offset a and         *)
(* nothing taken out.                                                      *)
InsertedAt(new, old, a, rep) ==
    /\ Len(new) = Len(old) + Len(rep)
    /\ Slice(new, 0, a) = Slice(old, 0, a)
    /\ Slice(new, a, a + Len(rep)) = rep
    /\ Slice(new, a + Len(rep), Len(new)) = Slice(old, a, Len(old))

(* The driver has just returned from a repair_file call whose last event   *)
(* was ev; the locals of the call are still in place.                      *)
Returned(ev) == pc = "loop" /\ io # <<>> /\ io[Len(io)] = ev
Happened(events, ev) == \E i \in 1..Len(events) : events[i] = ev
LastOf(events) == events[Len(events)]
ErrorEvents == {"missing", "not_a_file", "PermissionError", "OSError",
                "not_found", "UnicodeEncodeError"}

----------------------------------------------------------------------------
(* C1: the bytes written back are bytes[:start] + r + bytes[end:]: every   *)
(* byte before start and every byte from end on is the input's, in the     *)
(* same order, and the length is len(bytes) - (end - start) + len(r).      *)
C1_PatchFrame ==
    Returned("write_ok") =>
        LET w == disk[filename].data
            start == r[1]
            end == r[2]
            n == Len(new_shebang_part)
        IN  /\ Len(w) = Len(content) - (end - start) + n
            /\ \A i \in 0..(start - 1) : At(w, i) = At(content, i)
            /\ \A i \in 0..(n - 1) : At(w, start + i) = At(new_shebang_part, i)
            /\ \A i \in end..(Len(content) - 1) :
                   At(w, i - end + start + n) = At(content, i)

C1_Witness ==
    /\ Returned("write_ok")
    /\ r[1] > 2
    /\ r[2] > r[1]
    /\ r[2] < Len(content)
    /\ Len(new_shebang_part) > r[2] - r[1]

(* C2 as claimed: whichever #! P line-breaks PK the input contains, the    *)
(* search returns the span of that P.                                      *)
C2_AnyOccurrence ==
    Searched =>
        \A i \in WellFormed(bytes) : span = <<i + 2, FieldEnd(bytes, i + 2)>>

(* C2 amended: when the input contains #! P line-breaks PK, the search     *)
(* returns the span of P of the leftmost such #!, without the marker, the  *)
(* line breaks and PK.                                                     *)
C2_PrimaryLeftmost ==
    (Searched /\ WellFormed(bytes) # {}) =>
        LET m == SetMin(WellFormed(bytes))
        IN  span = <<m + 2, FieldEnd(bytes, m + 2)>>

C2_Witness ==
    /\ phase = "located"
    /\ WellFormed(bytes) # {}
    /\ span[2] > span[1]
    /\ At(bytes, span[2]) = CR
    /\ At(bytes, span[2] + 1) = LF

(* C3: an input with #! but with no #! P line-breaks PK anywhere gives the *)
(* span from right after the first #! to the first line break after it,    *)
(* or to the end of data.                                                  *)
C3_Secondary ==
    (Searched /\ Markers(bytes) # {} /\ WellFormed(bytes) = {}) =>
        LET f == SetMin(Markers(bytes))
        IN  span = <<f + 2, FieldEnd(bytes, f + 2)>>

C3_Witness ==
    /\ phase = "located"
    /\ WellFormed(bytes) = {}
    /\ span[2] > span[1]
    /\ span[2] < Len(bytes)
    /\ At(bytes, span[2]) = CR

(* C4 as claimed: the span starts right after the first #! of the input.   *)
C4_FirstMarker ==
    (Searched /\ Markers(bytes) # {}) =>
        /\ span # None
        /\ span[1] = SetMin(Markers(bytes)) + 2

(* C4 amended: the span starts right after a #!: the first #! whose line   *)
(* is followed by line breaks and PK when there is one (primary search),   *)
(* the first #! of the input otherwise (secondary search).                 *)
C4_Anchoring ==
    (Searched /\ Markers(bytes) # {}) =>
        /\ span # None
        /\ span[1] = Anchor(bytes) + 2

C4_Witness ==
    /\ phase = "located"
    /\ WellFormed(bytes) # {}
    /\ span[1] = SetMin(WellFormed(bytes)) + 2
    /\ SetMin(WellFormed(bytes)) > SetMin(Markers(bytes))

(* C5: an input with no #! is not found: repair_file goes neither to the   *)
(* backup nor to the patch, returns False with no error raised, and the    *)
(* driver is back in its loop.                                             *)
C5_NotFound ==
    (Happened(io, "read") /\ Markers(content) = {}) =>
        /\ r = None
        /\ pc \in {"search", "loop", "done"}
        /\ pc # "search" =>
              /\ LastOf(io) = "not_found"
              /\ log[Len(log)] = [target |-> filename, ok |-> FALSE, io |-> io]
              /\ disk[filename].data = content

C5_Witness ==
    /\ Returned("not_found")
    /\ Markers(content) = {}
    /\ Happened(content, HASH)
    /\ idx < Len(filenames)

(* C6: with print_only set nothing is written: every path, the targets     *)
(* and their .backup files, holds what it held when the run started,       *)
(* whatever the search finds and whether or not backup is set.             *)
C6_ReportOnly == print_only => disk = disk0

C6_Witness ==
    /\ print_only /\ backup
    /\ base_interpreter # None
    /\ Returned("report")
    /\ log[Len(log)].ok

(* C7: the targets are processed once each, in list order, no failure      *)
(* stops the loop, and the exit status is 1 exactly when some target       *)
(* failed, 0 otherwise.                                                    *)
C7_Batch ==
    /\ Len(log) <= Len(filenames)
    /\ \A i \in 1..Len(log) :
          /\ log[i].target = filenames[i]
          /\ log[i].ok = (LastOf(log[i].io) \notin ErrorEvents)
    /\ Len(log) = (IF pc \in {"loop", "done"} THEN idx ELSE idx - 1)
    /\ pc # "done" => exit_code = None
    /\ pc = "loop" => ENABLED (NextTarget \/ Finish)
    /\ pc = "done" =>
          /\ Len(log) = Len(filenames)
          /\ exit_code =
                (IF \E i \in 1..Len(log) : LastOf(log[i].io) \in ErrorEvents
                 THEN 1 ELSE 0)

C7_Witness ==
    /\ pc = "done"
    /\ Len(filenames) = 2
    /\ LastOf(log[1].io) = "PermissionError"
    /\ log[2].ok
    /\ exit_code = 1

C9_BreakOrPK ==
    (Searched /\ Markers(bytes) # {}) =>
        LET m == SetMin(Markers(bytes))
        IN  (/\ m + 2 < Len(bytes)
             /\ \/ IsLineBreak(At(bytes, m + 2))
                \/ /\ m + 3 < Len(bytes)
                   /\ At(bytes, m + 2) = LetterP
                   /\ At(bytes, m + 3) = LetterK)
            => /\ span = <<m + 2, m + 2>>
               /\ shown = <<>>
               /\ phase \in {"patched", "relocated"} =>
                     InsertedAt(patched, bytes, m + 2, replacement)

(* C9 amended: when the #! the search settles on (the first one whose      *)
(* line is followed by line breaks and PK, else the first one) is          *)
(* immediately followed by a line break, the span is zero-width right      *)
(* after it, the value shown is empty and the patch inserts the            *)
(* replacement there, removing nothing.                                    *)
C9_EmptyField ==
    (Searched /\ Markers(bytes) # {}) =>
        LET m == Anchor(bytes)
        IN  (m + 2 < Len(bytes) /\ IsLineBreak(At(bytes, m + 2)))
            => /\ span = <<m + 2, m + 2>>
               /\ shown = <<>>
               /\ phase \in {"patched", "relocated"} =>
                     InsertedAt(patched, bytes, m + 2, replacement)

C9_Witness ==
    /\ phase = "patched"
    /\ span[1] = span[2]
    /\ span[1] < Len(bytes)
    /\ IsLineBreak(At(bytes, span[1]))
    /\ WellFormed(bytes) # {}
    /\ Len(patched) > Len(bytes)

(* C10: for a replacement with no CR or LF, the search over the patched    *)
(* bytes returns [start, start + len(r)), and patching again with the      *)
(* same r gives the same bytes.                                            *)
C10_Idempotent ==
    (phase = "relocated" /\ ~HasLineBreak(replacement)) =>
        /\ respan = <<span[1], span[1] + Len(replacement)>>
        /\ repatched = patched

C10_Witness ==
    /\ phase = "relocated"
    /\ ~HasLineBreak(replacement)
    /\ Markers(replacement) # {}
    /\ Len(replacement) # span[2] - span[1]
    /\ span[1] > 2
    /\ repatched = patched

====
